---- MODULE Spec2Model ----
(***************************************************************************)
(* Employee management service: the FastAPI handlers of main.py, the       *)
(* psycopg2 store functions of db/db_utils.py on the PostgreSQL table      *)
(* "employees", and the in-memory HRManager of models/hr_manager.py.       *)
(*                                                                         *)
(* Money.  A request salary is a decimal  units + mills/1000  (a JSON      *)
(* number with up to three fractional digits); a stored salary is a        *)
(* number of cents, the value of a DECIMAL(10,2) column.  Python floats    *)
(* that carry such decimals are written as the decimal they denote.        *)
(*                                                                         *)
(* Transactions.  Every store function works on its own connection.  Rows  *)
(* written before commit stay in the connection's transaction (pending,    *)
(* locked) and reach the table at commit; rollback and close drop them     *)
(* (read committed isolation).  A commit either applies or aborts.         *)
(***************************************************************************)
EXTENDS Integers, Sequences, FiniteSets, Bags, TLC

\* ------------------------------------------------------------------ bounds
\* Largest value the id sequence hands out in a run.
MaxId == 3

\* The request workers that run handlers concurrently.
Procs == {"w1", "w2"}

\* ------------------------------------------------------- program constants
NameMaxLength == 255
AgeMax == 150
DepartmentMaxLength == 100
\* DECIMAL(10, 2): the rounded absolute value must stay below 10^(10-2).
NumericPrecision == 10
NumericScale == 2

RECURSIVE Pow10(_)
Pow10(n) == IF n = 0 THEN 1 ELSE 10 * Pow10(n - 1)

RECURSIVE Rep(_, _)
Rep(s, n) ==
    IF n = 0 THEN ""
    ELSE LET half == Rep(s, n \div 2)
         IN IF n % 2 = 1 THEN half \o half \o s ELSE half \o half

\* ------------------------------------------------------------ request data
Salary(u, m) == [units |-> u, mills |-> m]

Body(n, a, s, d) == [name |-> n, age |-> a, salary |-> s, department |-> d]

\* Requests that pass validation: 50000.0 and 0.001 (stored as 0.00) fit the
\* salary column, 100000000.0 does not.
StorableBodies ==
    {Body("Ann", 30, Salary(50000, 0), "Eng"),
     Body("Bob", AgeMax, Salary(0, 1), "Ops")}

ValidBodies ==
    StorableBodies
    \cup {Body("Ann", 30, Salary(Pow10(NumericPrecision - NumericScale), 0), "Eng")}

BaseBody == Body("Ann", 30, Salary(50000, 0), "Eng")

\* One field invalid, all others valid; and the request of
\* test_add_employee_validation_error with every field invalid.
InvalidBodies ==
    {[BaseBody EXCEPT !.name = n] : n \in {"", Rep("x", NameMaxLength + 1)}}
    \cup {[BaseBody EXCEPT !.age = a] : a \in {0, AgeMax + 1}}
    \cup {[BaseBody EXCEPT !.salary = s] : s \in {Salary(0, 0)}}
    \cup {[BaseBody EXCEPT !.department = d] :
              d \in {"", Rep("y", DepartmentMaxLength + 1)}}
    \cup {Body("", -5, Salary(-1000, 0), "")}

Bodies == ValidBodies \cup InvalidBodies

\* Ids a delete request may name: every id the sequence can hand out and
\* one it never does.
DeleteIds == 1..(MaxId + 1)

NoBody == Body("", 0, Salary(0, 0), "")

\* ------------------------------------------------- main.py: EmployeeCreate
\* name: str = Field(..., min_length=1, max_length=255)
NameOk(n) == Len(n) >= 1 /\ Len(n) <= NameMaxLength

AgeOk_NoUpper(a) == a > 0

\* age: int = Field(..., gt=0, le=150)
AgeOk(a) == a > 0 /\ a <= AgeMax

\* salary: float = Field(..., gt=0)
SalaryOk(s) == s.units > 0 \/ (s.units = 0 /\ s.mills > 0)

\* department: str = Field(..., min_length=1, max_length=100)
DepartmentOk(d) == Len(d) >= 1 /\ Len(d) <= DepartmentMaxLength

EmployeeCreate(b) ==
    NameOk(b.name) /\ AgeOk(b.age) /\ SalaryOk(b.salary) /\ DepartmentOk(b.department)

\* ------------------------------------------- the employees table (schema)
\* salary DECIMAL(10, 2): the literal is rounded to two fractional digits,
\* half away from zero (salaries that reach the store are positive).
RoundedCents(s) == (s.mills + 5) \div Pow10(3 - NumericScale)

RoundedUnits(s) == s.units + RoundedCents(s) \div Pow10(NumericScale)

\* "numeric field overflow": the rounded value needs more than 8 integer digits.
NumericOverflow(s) == RoundedUnits(s) >= Pow10(NumericPrecision - NumericScale)

\* The stored value, in cents.
ToNumeric(s) ==
    RoundedUnits(s) * Pow10(NumericScale) + (RoundedCents(s) % Pow10(NumericScale))

\* INSERT fails on a value the column types cannot hold.
ConstraintViolation(b) ==
    \/ Len(b.name) > NameMaxLength
    \/ Len(b.department) > DepartmentMaxLength
    \/ NumericOverflow(b.salary)

\* The row an INSERT writes.  created_at DEFAULT CURRENT_TIMESTAMP is the
\* time of the INSERT, told here by its place among the draws of the sequence.
Row(i, b) ==
    [id |-> i, name |-> b.name, age |-> b.age,
     salary |-> ToNumeric(b.salary), department |-> b.department,
     created_at |-> i]

\* float(row[3]): the Decimal read back, as the decimal the float denotes.
ToFloat(cents) ==
    Salary(cents \div Pow10(NumericScale),
           (cents % Pow10(NumericScale)) * Pow10(3 - NumericScale))

\* The dictionary both add_employee and get_all_employees build from a row.
EmployeeData(r) ==
    [id |-> r.id, name |-> r.name, age |-> r.age,
     salary |-> ToFloat(r.salary), department |-> r.department]

\* The ids of a set of rows.
Ids(rows) == {r.id : r \in rows}

RECURSIVE OrderById_Desc(_)
OrderById_Desc(rows) ==
    IF rows = {} THEN <<>>
    ELSE LET first == CHOOSE r \in rows : \A q \in rows : r.id >= q.id
         IN <<first>> \o OrderById_Desc(rows \ {first})

\* ORDER BY id
RECURSIVE OrderById(_)
OrderById(rows) ==
    IF rows = {} THEN <<>>
    ELSE LET first == CHOOSE r \in rows : \A q \in rows : r.id <= q.id
         IN <<first>> \o OrderById(rows \ {first})

\* SELECT id, name, age, salary, department FROM employees ORDER BY id,
\* each row turned into a dictionary.
SelectAll(rows) ==
    LET sorted == OrderById(rows)
    IN [i \in 1..Len(sorted) |-> EmployeeData(sorted[i])]

DeleteWhereId_Le(rows, i) == {r \in rows : r.id <= i}

\* DELETE FROM employees WHERE id = %s: the rows the statement removes.
DeleteWhereId(rows, i) == {r \in rows : r.id = i}

\* WITHIN GROUP (ORDER BY col): the column of the rows, ascending.
RECURSIVE OrderBy(_, _)
OrderBy(rows, col) ==
    IF rows = {} THEN <<>>
    ELSE LET first == CHOOSE r \in rows : \A q \in rows : r[col] <= q[col]
         IN <<first[col]>> \o OrderBy(rows \ {first}, col)

PercentileCont_Disc(vals) ==
    IF Len(vals) = 0 THEN {} ELSE {2 * vals[(Len(vals) - 1) \div 2 + 1]}

\* PERCENTILE_CONT(0.5) over the sorted values: rows floor(0.5 (N-1)) and
\* ceil(0.5 (N-1)) (counted from 0), interpolated by the fractional part
\* of 0.5 (N-1).  The result is NULL ({}) over no rows, else {2 * median}:
\* medians are carried doubled so that a half stays an integer.
PercentileCont(vals) ==
    LET N == Len(vals)
        first_row == (N - 1) \div 2
        second_row == N \div 2
        twice_proportion == (N - 1) - 2 * first_row
        lo == vals[first_row + 1]
        hi == vals[second_row + 1]
    IN IF N = 0 THEN {}
       ELSE IF first_row = second_row THEN {2 * lo}
       ELSE {2 * lo + twice_proportion * (hi - lo)}

\* db_utils.get_median_age / get_median_salary on the committed rows.
MedianAgeQuery(rows) == PercentileCont(OrderBy(rows, "age"))

MedianSalaryQuery(rows) == PercentileCont(OrderBy(rows, "salary"))

\* ------------------------------------------------------------------ state
VARIABLES
    table_exists,      \* the employees table has been created
    employees,         \* the committed rows of the table
    employees_id_seq,  \* last value handed out by the SERIAL sequence of id
    worker,            \* per worker: the request in progress and its locals
    responses,         \* the HTTP response just sent (at most one)
    returned_ids,      \* ids returned by successful creates, in order
    deleted_ids,       \* bag of the ids for which delete_employee_by_id returned True
    startup,           \* startup_event: the statement reached, the connection of
                       \* init_database open, the error init_database raised
    hr_employees,      \* HRManager.employees: the list of Employee objects
    ui                 \* streamlit_app: the HTTP requests sent so far and the last
                       \* call_api: its method, what requests gave it, its result

service_vars ==
    <<table_exists, employees, employees_id_seq, worker, responses,
      returned_ids, deleted_ids, startup>>

vars == <<service_vars, hr_employees, ui>>

\* A worker between requests.  pc is the statement of the store function
\* the request has reached, employee / employee_id the handler's argument,
\* conn whether its connection is open, result the row its INSERT wrote,
\* deleting the rows its DELETE removed (both uncommitted), db_calls the
\* store functions the handler has called, existed whether the id of a
\* delete request was stored when the request came in.
Idle ==
    [pc |-> "idle", employee |-> NoBody, employee_id |-> 0, conn |-> FALSE,
     result |-> {}, deleting |-> {}, db_calls |-> 0, existed |-> FALSE]

\* str(e) of the psycopg2 errors the store functions can raise.
ConnectFailed == "could not connect to server"
ConnectionLost == "server closed the connection unexpectedly"
UndefinedTable == "relation \"employees\" does not exist"
NumericFieldOverflow == "numeric field overflow"

\* The response of a handler: status code and JSON body.  With it are kept
\* the request it answers, the number of store functions the handler
\* called, the error its store function raised (raised, none here), and
\* the committed rows (before) and the handler's locals (locals) as they
\* were when the handler took its last step.
Response(w, op, b, i, status, body, calls) ==
    [worker |-> w, op |-> op, employee |-> b, employee_id |-> i,
     status |-> status, body |-> body, db_calls |-> calls, raised |-> {},
     before |-> employees, locals |-> worker[w]]

\* HTTPException(status_code=500, detail=f"{prefix}{str(e)}")
Http500(prefix, e) == [detail |-> prefix \o e]

StoreError_Swallowed(w, op, b, i, prefix, e, calls) ==
    [Response(w, op, b, i, 200, <<>>, calls) EXCEPT !.raised = {e}]

StoreError_Retried(w, op, b, i, prefix, e, calls) ==
    [Response(w, op, b, i, 500, Http500(prefix, e), calls + 1) EXCEPT !.raised = {e}]

\* "except Exception as e" of a handler whose store function raised e:
\* the HTTPException(500) is the response, the store is not called again.
StoreError(w, op, b, i, prefix, e, calls) ==
    [Response(w, op, b, i, 500, Http500(prefix, e), calls) EXCEPT !.raised = {e}]

Quiet == responses = {}

\* call_api's view of requests.get / post / delete: the exception raised
\* (raised, "" for none) or the status code and text of the response.
Http(raised, status_code, text) ==
    [raised |-> raised, status_code |-> status_code, text |-> text]

\* No HTTP request was made.
NoHttp == Http("", 0, "")

\* The tuple call_api returns; None is the empty set.
Triple(data, error, status_code) ==
    [data |-> data, error |-> error, status_code |-> status_code]

NoResult == Triple({}, {}, 0)

Init ==
    /\ table_exists = FALSE
    /\ employees = {}
    /\ employees_id_seq = 0
    /\ worker = [w \in Procs |-> Idle]
    /\ responses = {}
    /\ returned_ids = <<>>
    /\ deleted_ids = EmptyBag
    /\ startup = [pc |-> "idle", conn |-> FALSE, raised |-> {}]
    /\ hr_employees = <<>>
    /\ ui = [requests |-> 0, method |-> "", http |-> NoHttp, result |-> NoResult]

Rollback_Kept(rows) == rows

\* conn.rollback(): the rows of the transaction that stay written.
Rollback(rows) == {}

Finally_Leaked(conn) == conn

\* "finally: if conn: conn.close()": whether the connection is open after.
Finally(conn) == FALSE

\* A handler returns or raises: its response goes out, its connection is
\* closed by the finally clause and whatever its transaction had not
\* committed is dropped.
Respond(w, r) ==
    /\ responses' = {r}
    /\ worker' = [worker EXCEPT ![w] = [Idle EXCEPT !.conn = Finally(worker[w].conn)]]

\* main.startup_event calls db_utils.init_database, which opens its
\* connection.  Runs when the service (re)starts, before it takes requests.
startup_event ==
    /\ Quiet
    /\ startup.pc = "idle"
    /\ \A w \in Procs : worker[w].pc = "idle"
    /\ \/ startup' = [pc |-> "failed", conn |-> FALSE, raised |-> {ConnectFailed}]
       \/ startup' = [pc |-> "create_table", conn |-> TRUE, raised |-> {}]
    /\ UNCHANGED <<ui, hr_employees, table_exists, employees, employees_id_seq, worker,
                   responses, returned_ids, deleted_ids>>

CreateTableIfNotExists_Recreated(exists, rows) == {}

\* CREATE TABLE IF NOT EXISTS employees (...): the rows of the table after
\* the statement; a table that exists is left as it is.
CreateTableIfNotExists(exists, rows) == IF exists THEN rows ELSE {}

\* db_utils.init_database: CREATE TABLE IF NOT EXISTS and commit, or an
\* error (rollback, raise); then the finally clause.
init_database ==
    /\ startup.pc = "create_table"
    /\ \/ /\ table_exists' = TRUE
          /\ employees' = CreateTableIfNotExists(table_exists, employees)
          /\ startup' = [pc |-> "initialized", conn |-> Finally(startup.conn),
                         raised |-> {}]
       \/ /\ UNCHANGED <<table_exists, employees>>
          /\ startup' = [pc |-> "failed", conn |-> Finally(startup.conn),
                         raised |-> {ConnectionLost}]
    /\ UNCHANGED <<ui, hr_employees, employees_id_seq, worker, responses,
                   returned_ids, deleted_ids>>

\* main.startup_event prints "Database initialized successfully" or, for an
\* error of init_database, "Error initializing database: ..." and returns.
startup_return ==
    /\ startup.pc \in {"initialized", "failed"}
    /\ startup' = [pc |-> "idle", conn |-> startup.conn, raised |-> {}]
    /\ UNCHANGED <<ui, hr_employees, table_exists, employees, employees_id_seq, worker,
                   responses, returned_ids, deleted_ids>>

\* The service takes requests once its startup has run.
Serving == Quiet /\ startup.pc = "idle"

\* GET /
root(w) ==
    /\ Serving
    /\ worker[w].pc = "idle"
    /\ Respond(w, Response(w, "GET /", NoBody, 0, 200,
                           [message |-> "Employee Management API",
                            version |-> "1.0.0", docs |-> "/docs"], 0))
    /\ UNCHANGED <<ui, startup, hr_employees, table_exists, employees, employees_id_seq,
                   returned_ids, deleted_ids>>

\* POST /employee: request validation, then main.add_employee calls
\* db_utils.add_employee, which opens its connection.
post_employee(w, b) ==
    /\ Serving
    /\ worker[w].pc = "idle"
    /\ \/ /\ ~EmployeeCreate(b)
          /\ Respond(w, Response(w, "POST /employee", b, 0, 422,
                                 [detail |-> "validation error"], 0))
       \/ /\ EmployeeCreate(b)
          /\ Respond(w, StoreError(w, "POST /employee", b, 0,
                                   "Error adding employee: ", ConnectFailed, 1))
       \/ /\ EmployeeCreate(b)
          /\ worker' = [worker EXCEPT ![w] =
                 [Idle EXCEPT !.pc = "add_execute", !.employee = b,
                              !.conn = TRUE, !.db_calls = 1]]
          /\ UNCHANGED responses
    /\ UNCHANGED <<ui, startup, hr_employees, table_exists, employees, employees_id_seq,
                   returned_ids, deleted_ids>>

NextId_MaxPlusOne(seq, rows) ==
    IF rows = {} THEN 1
    ELSE (CHOOSE i \in Ids(rows) : \A j \in Ids(rows) : j <= i) + 1

\* id SERIAL: the id of an inserted row is nextval of the sequence, whatever
\* rows the table holds.
NextId(seq, rows) == seq + 1

\* db_utils.add_employee: cursor.execute(INSERT ... RETURNING ...), fetchone.
\* nextval is not undone by a rollback; a statement cut off by a lost
\* connection may or may not have drawn from the sequence.
add_employee_execute(w) ==
    LET b == worker[w].employee
        fail(e) == Respond(w, StoreError(w, "POST /employee", b, 0,
                                         "Error adding employee: ", e, worker[w].db_calls))
    IN /\ Quiet
       /\ worker[w].pc = "add_execute"
       /\ \/ /\ ~table_exists
             /\ fail(UndefinedTable)
             /\ UNCHANGED employees_id_seq
          \/ /\ table_exists
             /\ ConstraintViolation(b)
             /\ fail(NumericFieldOverflow)
             /\ UNCHANGED employees_id_seq
          \/ /\ fail(ConnectionLost)
             /\ \E drawn \in {0, 1} :
                   /\ employees_id_seq + drawn <= MaxId
                   /\ employees_id_seq' = employees_id_seq + drawn
          \/ /\ table_exists
             /\ ~ConstraintViolation(b)
             /\ employees_id_seq < MaxId
             /\ employees_id_seq' = NextId(employees_id_seq, employees)
             /\ worker' = [worker EXCEPT ![w].pc = "add_commit",
                              ![w].result = {Row(NextId(employees_id_seq, employees), b)}]
             /\ UNCHANGED responses
       /\ UNCHANGED <<ui, startup, hr_employees, table_exists, employees, returned_ids,
                      deleted_ids>>

Insert_Upsert(rows, new) ==
    {r \in rows : \A n \in new : r.name # n.name} \cup new

\* INSERT INTO employees ... committed: the rows of the table after it.
Insert(rows, new) == rows \cup new

\* db_utils.add_employee: conn.commit(), employee_data, return; then
\* main.add_employee returns EmployeeResponse(**employee_data) with 201.
\* A failed commit is rolled back and raised.
add_employee_commit(w) ==
    LET b == worker[w].employee
        row == CHOOSE r \in worker[w].result : TRUE
    IN /\ Quiet
       /\ worker[w].pc = "add_commit"
       /\ \/ /\ employees' = Insert(employees, worker[w].result)
             /\ returned_ids' = Append(returned_ids, row.id)
             /\ Respond(w, Response(w, "POST /employee", b, 0, 201,
                                    EmployeeData(row), worker[w].db_calls))
          \/ /\ employees' = employees \cup Rollback(worker[w].result)
             /\ Respond(w, StoreError(w, "POST /employee", b, 0,
                                      "Error adding employee: ", ConnectionLost,
                                      worker[w].db_calls))
             /\ UNCHANGED returned_ids
       /\ UNCHANGED <<ui, startup, hr_employees, table_exists, employees_id_seq, deleted_ids>>

\* DELETE /employee/{employee_id}: main.delete_employee calls
\* db_utils.delete_employee_by_id, which opens its connection.
delete_employee(w, i) ==
    /\ Serving
    /\ worker[w].pc = "idle"
    /\ \/ Respond(w, StoreError(w, "DELETE /employee/{employee_id}", NoBody, i,
                                "Error deleting employee: ", ConnectFailed, 1))
       \/ /\ worker' = [worker EXCEPT ![w] =
                 [Idle EXCEPT !.pc = "delete_execute", !.employee_id = i,
                              !.conn = TRUE, !.db_calls = 1,
                              !.existed = (DeleteWhereId(employees, i) # {})]]
          /\ UNCHANGED responses
    /\ UNCHANGED <<ui, startup, hr_employees, table_exists, employees, employees_id_seq,
                   returned_ids, deleted_ids>>

LockedByOther_Never(w, rows) == FALSE

\* A row another transaction has deleted and not yet committed is locked.
LockedByOther(w, rows) ==
    \E v \in Procs \ {w} : worker[v].deleting \cap rows # {}

\* db_utils.delete_employee_by_id: cursor.execute(DELETE ...), rowcount.
\* The statement waits for the lock of a row it would remove and then
\* sees the committed table.
delete_employee_execute(w) ==
    LET i == worker[w].employee_id
        fail(e) == Respond(w, StoreError(w, "DELETE /employee/{employee_id}", NoBody, i,
                                         "Error deleting employee: ", e, worker[w].db_calls))
    IN /\ Quiet
       /\ worker[w].pc = "delete_execute"
       /\ \/ /\ ~table_exists
             /\ fail(UndefinedTable)
          \/ fail(ConnectionLost)
          \/ /\ table_exists
             /\ ~LockedByOther(w, DeleteWhereId(employees, i))
             /\ worker' = [worker EXCEPT ![w].pc = "delete_commit",
                              ![w].deleting = DeleteWhereId(employees, i)]
             /\ UNCHANGED responses
       /\ UNCHANGED <<ui, startup, hr_employees, table_exists, employees, employees_id_seq,
                      returned_ids, deleted_ids>>

\* main.delete_employee with the bool of the store in hand: the 200 body,
\* or the HTTPException(404) that "except HTTPException: raise" lets through.
DeleteAnswer_Caught(deleted) ==
    IF deleted
    THEN [status |-> 200,
          body |-> [message |-> "Employee with ID {employee_id} deleted successfully",
                    deleted |-> TRUE]]
    ELSE [status |-> 500,
          body |-> Http500("Error deleting employee: ",
                           "404: Employee with ID {employee_id} not found")]

DeleteAnswer(deleted) ==
    IF deleted
    THEN [status |-> 200,
          body |-> [message |-> "Employee with ID {employee_id} deleted successfully",
                    deleted |-> TRUE]]
    ELSE [status |-> 404,
          body |-> [detail |-> "Employee with ID {employee_id} not found"]]

\* db_utils.delete_employee_by_id: conn.commit(), return rows_deleted > 0;
\* then main.delete_employee answers 200 or raises the 404.
delete_employee_commit(w) ==
    LET i == worker[w].employee_id
        rows_deleted == Cardinality(worker[w].deleting)
        respond(status, body) ==
            Respond(w, Response(w, "DELETE /employee/{employee_id}", NoBody, i,
                                status, body, worker[w].db_calls))
    IN /\ Quiet
       /\ worker[w].pc = "delete_commit"
       /\ \/ /\ employees' = employees \ worker[w].deleting
             /\ deleted_ids' = IF rows_deleted > 0
                               THEN deleted_ids (+) SetToBag({i})
                               ELSE deleted_ids
             /\ respond(DeleteAnswer(rows_deleted > 0).status,
                        DeleteAnswer(rows_deleted > 0).body)
          \/ /\ employees' = employees \ Rollback(worker[w].deleting)
             /\ Respond(w, StoreError(w, "DELETE /employee/{employee_id}", NoBody, i,
                                      "Error deleting employee: ", ConnectionLost,
                                      worker[w].db_calls))
             /\ UNCHANGED deleted_ids
       /\ UNCHANGED <<ui, startup, hr_employees, table_exists, employees_id_seq, returned_ids>>

\* A read-only handler calls its store function, which opens its connection.
BeginQuery(w, op, pc, prefix) ==
    /\ Serving
    /\ worker[w].pc = "idle"
    /\ \/ Respond(w, StoreError(w, op, NoBody, 0, prefix, ConnectFailed, 1))
       \/ /\ worker' = [worker EXCEPT ![w] =
                 [Idle EXCEPT !.pc = pc, !.conn = TRUE, !.db_calls = 1]]
          /\ UNCHANGED responses
    /\ UNCHANGED <<ui, startup, hr_employees, table_exists, employees, employees_id_seq,
                   returned_ids, deleted_ids>>

FetchQuery_Nextval(w, op, pc, prefix, body) ==
    LET fail(e) == Respond(w, StoreError(w, op, NoBody, 0, prefix, e, worker[w].db_calls))
    IN /\ Quiet
       /\ worker[w].pc = pc
       /\ \/ /\ ~table_exists
             /\ fail(UndefinedTable)
             /\ UNCHANGED employees_id_seq
          \/ /\ fail(ConnectionLost)
             /\ UNCHANGED employees_id_seq
          \/ /\ table_exists
             /\ employees_id_seq < MaxId
             /\ employees_id_seq' = employees_id_seq + 1
             /\ Respond(w, Response(w, op, NoBody, 0, 200, body, worker[w].db_calls))
       /\ UNCHANGED <<ui, startup, hr_employees, table_exists, employees,
                      returned_ids, deleted_ids>>

\* The store function runs its SELECT on the committed rows and returns;
\* the handler answers 200 with body, or 500 when the statement failed.
FetchQuery(w, op, pc, prefix, body) ==
    LET fail(e) == Respond(w, StoreError(w, op, NoBody, 0, prefix, e, worker[w].db_calls))
    IN /\ Quiet
       /\ worker[w].pc = pc
       /\ \/ /\ ~table_exists
             /\ fail(UndefinedTable)
          \/ fail(ConnectionLost)
          \/ /\ table_exists
             /\ Respond(w, Response(w, op, NoBody, 0, 200, body, worker[w].db_calls))
       /\ UNCHANGED <<ui, startup, hr_employees, table_exists, employees, employees_id_seq,
                      returned_ids, deleted_ids>>

\* GET /employees
get_all_employees(w) ==
    BeginQuery(w, "GET /employees", "select_all", "Error retrieving employees: ")

get_all_employees_fetch(w) ==
    FetchQuery(w, "GET /employees", "select_all", "Error retrieving employees: ",
               SelectAll(employees))

StatsResponse_Truthy(median, found, not_found) ==
    IF median # {} /\ median # {0}
    THEN [median_value |-> median, message |-> found]
    ELSE [median_value |-> {}, message |-> not_found]

\* StatsResponse of the two statistics handlers ("is not None").
StatsResponse(median, found, not_found) ==
    IF median # {}
    THEN [median_value |-> median, message |-> found]
    ELSE [median_value |-> {}, message |-> not_found]

\* GET /stats/median-age
get_median_age(w) ==
    BeginQuery(w, "GET /stats/median-age", "median_age", "Error calculating median age: ")

get_median_age_fetch(w) ==
    FetchQuery(w, "GET /stats/median-age", "median_age", "Error calculating median age: ",
               StatsResponse(MedianAgeQuery(employees), "Median age: {median_age:.2f}",
                             "No employees found to calculate median age"))

\* GET /stats/median-salary
get_median_salary(w) ==
    BeginQuery(w, "GET /stats/median-salary", "median_salary",
               "Error calculating median salary: ")

get_median_salary_fetch(w) ==
    FetchQuery(w, "GET /stats/median-salary", "median_salary",
               "Error calculating median salary: ",
               StatsResponse(MedianSalaryQuery(employees),
                             "Median salary: ${median_salary:,.2f}",
                             "No employees found to calculate median salary"))

\* The response reaches the client before any handler takes another step,
\* so a response is always seen next to the store it was computed from.
deliver ==
    /\ ~Quiet
    /\ responses' = {}
    /\ UNCHANGED <<ui, startup, hr_employees, table_exists, employees, employees_id_seq, worker,
                   returned_ids, deleted_ids>>

Next ==
    \/ startup_event
    \/ init_database
    \/ startup_return
    \/ deliver
    \/ \E w \in Procs :
          \/ root(w)
          \/ \E b \in Bodies : post_employee(w, b)
          \/ add_employee_execute(w)
          \/ add_employee_commit(w)
          \/ \E i \in DeleteIds : delete_employee(w, i)
          \/ delete_employee_execute(w)
          \/ delete_employee_commit(w)
          \/ get_all_employees(w)
          \/ get_all_employees_fetch(w)
          \/ get_median_age(w)
          \/ get_median_age_fetch(w)
          \/ get_median_salary(w)
          \/ get_median_salary_fetch(w)

Spec == Init /\ [][Next]_vars

\* ------------------------------------------------ binary64 (Python float,
\* PostgreSQL double precision).  A nonzero value is a 53-bit significand
\* m (most significant bit first, m[1] = 1) scaled so that its last bit
\* weighs 2^e; results are rounded to nearest, ties to even.  The values
\* met here are far from the exponent limits.
Zero64 == [m |-> <<>>, e |-> 0]

Zeros(n) == [k \in 1..n |-> 0]

\* bits without its leading zeros.
StripZeros(bits) ==
    LET ones == {k \in 1..Len(bits) : bits[k] = 1}
    IN IF ones = {} THEN <<>>
       ELSE SubSeq(bits, CHOOSE k \in ones : \A j \in ones : k <= j, Len(bits))

\* bits + 1, one bit longer when the carry runs out of the top.
Increment(bits) ==
    LET zeros == {k \in 1..Len(bits) : bits[k] = 0}
    IN IF zeros = {} THEN <<1>> \o Zeros(Len(bits))
       ELSE LET last == CHOOSE k \in zeros : \A j \in zeros : k >= j
            IN SubSeq(bits, 1, last - 1) \o <<1>> \o Zeros(Len(bits) - last)

\* The binary64 nearest to (bits, last bit weighing 2^e) + a positive rest
\* below 2^e when sticky; bits has no leading zero.
Round64(bits, e, sticky) ==
    LET L == Len(bits)
    IN IF L = 0 THEN Zero64
       ELSE IF L <= 53 THEN [m |-> bits \o Zeros(53 - L), e |-> e - (53 - L)]
       ELSE LET kept == SubSeq(bits, 1, 53)
                guard == bits[54]
                rest == sticky \/ \E k \in 55..L : bits[k] = 1
                up == guard = 1 /\ (rest \/ kept[53] = 1)
                sum == IF up THEN Increment(kept) ELSE kept
            IN IF Len(sum) = 54
               THEN [m |-> SubSeq(sum, 1, 53), e |-> e + (L - 53) + 1]
               ELSE [m |-> sum, e |-> e + (L - 53)]

\* The binary digits of n on w bits, and the number a bit string writes.
ToBits(n, w) == [k \in 1..w |-> (n \div 2^(w - k)) % 2]

RECURSIVE ToInt(_)
ToInt(bits) ==
    IF bits = <<>> THEN 0
    ELSE 2 * ToInt(SubSeq(bits, 1, Len(bits) - 1)) + bits[Len(bits)]

\* The binary digits of n >= 0, without leading zeros.
IntBits(n) ==
    ToBits(n, CHOOSE w \in 0..30 : n < 2^w /\ (w = 0 \/ n >= 2^(w - 1)))

\* 2^k mod d
RECURSIVE TwoPowMod(_, _)
TwoPowMod(k, d) ==
    IF k = 0 THEN 1 % d
    ELSE LET h == TwoPowMod(k \div 2, d)
         IN (h * h * (IF k % 2 = 1 THEN 2 ELSE 1)) % d

\* The first k binary digits of r / d (0 <= r < d), and the remainder left.
FracBits(r, d, k) ==
    [bits |-> [j \in 1..k |->
                  IF 2 * ((r * TwoPowMod(j - 1, d)) % d) >= d THEN 1 ELSE 0],
     rem |-> (r * TwoPowMod(k, d)) % d]

\* The binary64 nearest to n / d, for n >= 0 and n / d = 0 or >= 1/128:
\* float(Decimal) in Python, numeric -> double precision in PostgreSQL.
FromRatio64(n, d) ==
    LET frac == FracBits(n % d, d, 64)
    IN Round64(StripZeros(IntBits(n \div d) \o frac.bits), -64, frac.rem # 0)

\* a + b + carry for bit strings of one length, 24 bits at a time.
RECURSIVE AddBits(_, _, _)
AddBits(a, b, carry) ==
    IF a = <<>> THEN (IF carry = 1 THEN <<1>> ELSE <<>>)
    ELSE LET n == Len(a)
             w == IF n < 24 THEN n ELSE 24
             sum == ToInt(SubSeq(a, n - w + 1, n)) + ToInt(SubSeq(b, n - w + 1, n)) + carry
         IN AddBits(SubSeq(a, 1, n - w), SubSeq(b, 1, n - w), sum \div 2^w)
            \o ToBits(sum % 2^w, w)

\* a - b - borrow for bit strings of one length, a >= b, 24 bits at a time.
RECURSIVE SubBits(_, _, _)
SubBits(a, b, borrow) ==
    IF a = <<>> THEN <<>>
    ELSE LET n == Len(a)
             w == IF n < 24 THEN n ELSE 24
             diff == ToInt(SubSeq(a, n - w + 1, n)) - ToInt(SubSeq(b, n - w + 1, n)) - borrow
         IN SubBits(SubSeq(a, 1, n - w), SubSeq(b, 1, n - w), IF diff < 0 THEN 1 ELSE 0)
            \o ToBits((diff + 2^w) % 2^w, w)

\* The significand of x written with its last bit at 2^e, e <= x.e, on n bits.
Aligned(x, e, n) ==
    LET bits == x.m \o Zeros(x.e - e)
    IN Zeros(n - Len(bits)) \o bits

Min(a, b) == IF a <= b THEN a ELSE b
Max(a, b) == IF a >= b THEN a ELSE b

\* x + y
Add64(x, y) ==
    IF x = Zero64 THEN y
    ELSE IF y = Zero64 THEN x
    ELSE LET e == Min(x.e, y.e)
             n == 53 + Max(x.e, y.e) - e
         IN Round64(StripZeros(AddBits(Aligned(x, e, n), Aligned(y, e, n), 0)), e, FALSE)

\* x - y, for x >= y >= 0
Sub64(x, y) ==
    IF y = Zero64 THEN x
    ELSE LET e == Min(x.e, y.e)
             n == 53 + Max(x.e, y.e) - e
         IN Round64(StripZeros(SubBits(Aligned(x, e, n), Aligned(y, e, n), 0)), e, FALSE)

\* 0.5 * x and x / 2.0: exact.
Half64(x) == IF x = Zero64 THEN x ELSE [x EXCEPT !.e = x.e - 1]

\* -------------------------------------------- the statistics, in binary64
\* ORDER BY on a sequence of numbers (the in-memory sorted() as well).
RECURSIVE Sorted(_)
Sorted(vals) ==
    IF vals = <<>> THEN <<>>
    ELSE LET k == CHOOSE i \in DOMAIN vals : \A j \in DOMAIN vals : vals[i] <= vals[j]
         IN <<vals[k]>> \o Sorted(SubSeq(vals, 1, k - 1) \o SubSeq(vals, k + 1, Len(vals)))

\* PERCENTILE_CONT(0.5) on sorted double precision values: the row
\* floor(0.5 (N-1)) when it is also the row ceil(0.5 (N-1)), and else
\* float8_lerp: lo + 0.5 * (hi - lo).  NULL ({}) over no rows.
PercentileCont64(vals) ==
    LET N == Len(vals)
        first_row == (N - 1) \div 2
        second_row == N \div 2
        lo == vals[first_row + 1]
        hi == vals[second_row + 1]
    IN IF N = 0 THEN {}
       ELSE IF first_row = second_row THEN {lo}
       ELSE {Add64(lo, Half64(Sub64(hi, lo)))}

\* db_utils.get_median_age: age is cast from INTEGER to double precision.
get_median_age64(ages) ==
    LET sorted == Sorted(ages)
    IN PercentileCont64([k \in DOMAIN sorted |-> FromRatio64(sorted[k], 1)])

\* db_utils.get_median_salary: salary (cents) is cast from DECIMAL(10, 2).
get_median_salary64(salaries) ==
    LET sorted == Sorted(salaries)
    IN PercentileCont64([k \in DOMAIN sorted |->
                            FromRatio64(sorted[k], Pow10(NumericScale))])

\* ------------------------------------------------ models/hr_manager.py
\* Employee.from_dict on a dictionary of get_all_employees.
from_dict(data) ==
    [employee_id |-> data.id, name |-> data.name, age |-> data.age,
     salary |-> data.salary, department |-> data.department]

\* The Employee objects at hand: one per row, rows 3 and 4 with one salary.
Staff ==
    {from_dict(EmployeeData(r)) : r \in
        {[id |-> 1, name |-> "Ann", age |-> 30, salary |-> 4720977, department |-> "Eng"],
         [id |-> 2, name |-> "Bob", age |-> 41, salary |-> 14454055, department |-> "Ops"],
         [id |-> 3, name |-> "Cy", age |-> 30, salary |-> 5000000, department |-> "Eng"],
         [id |-> 4, name |-> "Di", age |-> AgeMax, salary |-> 5000000, department |-> "Ops"],
         [id |-> 5, name |-> "Ed", age |-> 20, salary |-> 0, department |-> "Ops"]}}

\* HRManager.add_employee: appends an object that is not in the list.
hr_add_employee(employee) ==
    /\ hr_employees' = IF \A k \in DOMAIN hr_employees : hr_employees[k] # employee
                       THEN Append(hr_employees, employee)
                       ELSE hr_employees
    /\ UNCHANGED <<service_vars, ui>>

\* HRManager.remove_employee: deletes the first object of that id.
hr_remove_employee(employee_id) ==
    LET found == {k \in DOMAIN hr_employees : hr_employees[k].employee_id = employee_id}
    IN /\ hr_employees' =
              IF found = {} THEN hr_employees
              ELSE LET i == CHOOSE k \in found : \A j \in found : k <= j
                   IN SubSeq(hr_employees, 1, i - 1)
                      \o SubSeq(hr_employees, i + 1, Len(hr_employees))
       /\ UNCHANGED <<service_vars, ui>>

\* A salary in thousandths; sorted() orders the floats as it orders these.
SalaryKey(s) == s.units * Pow10(3) + s.mills

\* HRManager.calculate_median_age
calculate_median_age(emps) ==
    LET ages == Sorted([k \in DOMAIN emps |-> emps[k].age])
        n == Len(ages)
    IN IF n = 0 THEN {}
       ELSE IF n % 2 = 0
            THEN {Half64(FromRatio64(ages[n \div 2] + ages[n \div 2 + 1], 1))}
            ELSE {FromRatio64(ages[n \div 2 + 1], 1)}

\* HRManager.calculate_median_salary
calculate_median_salary(emps) ==
    LET keys == Sorted([k \in DOMAIN emps |-> SalaryKey(emps[k].salary)])
        salaries == [k \in DOMAIN keys |-> FromRatio64(keys[k], Pow10(3))]
        n == Len(salaries)
    IN IF n = 0 THEN {}
       ELSE IF n % 2 = 0
            THEN {Half64(Add64(salaries[n \div 2], salaries[n \div 2 + 1]))}
            ELSE {salaries[n \div 2 + 1]}

NextHR ==
    \/ \E employee \in Staff : hr_add_employee(employee)
    \/ \E employee_id \in {e.employee_id : e \in Staff} : hr_remove_employee(employee_id)

SpecHR == Init /\ [][NextHR]_vars

\* --------------------------------------------------- streamlit_app.py
\* The HTTP requests call_api may send before the model stops it.
MaxRequests == 2

Methods == {"GET", "POST", "DELETE", "PUT"}

\* What the backend (or whatever answers at API_BASE_URL) can give back:
\* JSON objects and arrays, JSON null, and text that is not JSON, such
\* as the HTML of /docs or a proxy's error page.
ResponseTexts ==
    {"{\"data\": \"test\"}", "[]", "null", "<!DOCTYPE html>", "{\"detail\": \"Not Found\"}"}

HttpOutcomes ==
    {Http(e, 0, "") : e \in {"ConnectionError", "Timeout", "TooManyRedirects"}}
    \cup {Http("", c, t) : c \in {200, 201, 404, 500}, t \in ResponseTexts}

\* response.json(): the value parsed from the text (a value is told by its
\* JSON text, None is the empty set), or the JSONDecodeError raised.
json(text) ==
    IF text = "null" THEN [raised |-> "", value |-> {}]
    ELSE IF text \in {"{\"data\": \"test\"}", "[]", "{\"detail\": \"Not Found\"}"}
         THEN [raised |-> "", value |-> {text}]
         ELSE [raised |-> "Expecting value: line 1 column 1 (char 0)", value |-> {}]

\* streamlit_app.call_api(endpoint, method, data), given what the HTTP
\* request comes back with; no request is made for an unsupported method.
call_api(method, http) ==
    LET supported == method \in {"GET", "POST", "DELETE"}
        result ==
            IF ~supported
            THEN Triple({}, {"Unsupported method: " \o method}, 400)
            ELSE IF http.raised = "ConnectionError"
            THEN Triple({}, {"Connection error: Could not connect to API. "
                              \o "Make sure the backend is running."}, 0)
            ELSE IF http.raised = "Timeout"
            THEN Triple({}, {"Request timeout: API took too long to respond."}, 0)
            ELSE IF http.raised # ""
            THEN Triple({}, {"Unexpected error: " \o http.raised}, 0)
            ELSE IF http.status_code \in {200, 201}
            THEN IF json(http.text).raised # ""
                 THEN Triple({}, {"Unexpected error: " \o json(http.text).raised}, 0)
                 ELSE Triple(json(http.text).value, {}, http.status_code)
            ELSE Triple({}, {"Error: " \o ToString(http.status_code) \o " - "
                               \o http.text}, http.status_code)
    IN /\ ui.requests < MaxRequests
       /\ ui' = [requests |-> IF supported THEN ui.requests + 1 ELSE ui.requests,
                 method |-> method,
                 http |-> IF supported THEN http ELSE NoHttp,
                 result |-> result]
       /\ UNCHANGED <<service_vars, hr_employees>>

NextUI ==
    \E method \in Methods : \E http \in HttpOutcomes : call_api(method, http)

SpecUI == Init /\ [][NextUI]_vars

\* ------------------------------------------------------------- properties
Range(f) == {f[x] : x \in DOMAIN f}

Creates == {r \in responses : r.op = "POST /employee"}

Deletes == {r \in responses : r.op = "DELETE /employee/{employee_id}"}

Lists == {r \in responses : r.op = "GET /employees"}

Stats == {r \in responses : r.op \in {"GET /stats/median-age", "GET /stats/median-salary"}}

\* The 500 bodies a handler builds from an error raised by its store function.
StoreFailure(prefix) ==
    {Http500(prefix, e) : e \in {ConnectFailed, ConnectionLost, UndefinedTable,
                                 NumericFieldOverflow}}

\* C1: a successful create is followed by a listAll that contains a record
\* with the name, age, salary and department of the request and with an id
\* that no other create has returned.
C1_CreateThenListAll ==
    \A r \in Creates :
        r.status = 201 =>
            LET listed == SelectAll(employees)
            IN /\ \E k \in DOMAIN listed :
                     /\ listed[k].id = r.body.id
                     /\ listed[k].name = r.employee.name
                     /\ listed[k].age = r.employee.age
                     /\ listed[k].salary = r.employee.salary
                     /\ listed[k].department = r.employee.department
               /\ Cardinality({k \in DOMAIN returned_ids :
                                   returned_ids[k] = r.body.id}) = 1

\* C2: delete_employee_by_id returns True at most once per id; a delete
\* that came in when its id was stored answers 404 only after another
\* delete of that id has returned True.
C2_DeleteTrueOnce ==
    /\ \A i \in BagToSet(deleted_ids) : CopiesIn(i, deleted_ids) = 1
    /\ \A r \in Deletes :
          /\ r.status = 200 => r.employee_id \in Range(returned_ids)
          /\ (r.status = 404 /\ r.locals.existed) =>
                 CopiesIn(r.employee_id, deleted_ids) = 1

C2_Witness ==
    \E r \in Deletes :
        /\ r.status = 404
        /\ r.locals.existed
        /\ r.employee_id \in Range(returned_ids)
        /\ CopiesIn(r.employee_id, deleted_ids) = 1

\* The k-th smallest value of a column, counted with repetitions.
KthSmallest(rows, col, k) ==
    CHOOSE v \in {r[col] : r \in rows} :
        /\ Cardinality({r \in rows : r[col] < v}) < k
        /\ Cardinality({r \in rows : r[col] <= v}) >= k

\* Twice the median of a column of a non-empty set of rows.
TwiceMedian(rows, col) ==
    LET n == Cardinality(rows)
    IN IF n % 2 = 1 THEN 2 * KthSmallest(rows, col, (n + 1) \div 2)
       ELSE KthSmallest(rows, col, n \div 2) + KthSmallest(rows, col, n \div 2 + 1)

StatColumn(r) == IF r.op = "GET /stats/median-age" THEN "age" ELSE "salary"

C5_StatsResponse ==
    \A r \in Stats :
        LET age == r.op = "GET /stats/median-age"
        IN /\ r.status # 200 =>
                 /\ r.status = 500
                 /\ r.body \in StoreFailure(IF age THEN "Error calculating median age: "
                                            ELSE "Error calculating median salary: ")
           /\ r.status = 200 =>
               /\ (r.body.median_value = {}) <=> (employees = {})
               /\ (r.body.median_value = {}) <=>
                      (r.body.message =
                           IF age THEN "No employees found to calculate median age"
                           ELSE "No employees found to calculate median salary")
               /\ (r.body.median_value # {}) <=>
                      (r.body.message =
                           IF age THEN "Median age: {median_age:.2f}"
                           ELSE "Median salary: ${median_salary:,.2f}")
               /\ Cardinality(r.body.median_value) <= 1

C5_Witness ==
    /\ \E r \in Stats : r.status = 200 /\ r.body.median_value = {} /\ employees = {}
    /\ returned_ids # <<>>

\* The rejections C6 lists.
Rejected(b) ==
    \/ b.name = ""
    \/ b.age <= 0
    \/ b.age > 150
    \/ ~(b.salary.units > 0 \/ (b.salary.units = 0 /\ b.salary.mills > 0))
    \/ b.department = ""

\* C6: a create request with an empty name, an age <= 0 or > 150, a salary
\* <= 0 or an empty department is answered 422 and never reaches
\* db_utils.add_employee.
C6_InvalidCreateRejected ==
    /\ \A r \in Creates :
          Rejected(r.employee) => (r.status = 422 /\ r.db_calls = 0)
    /\ \A w \in Procs :
          worker[w].pc \in {"add_execute", "add_commit"} => ~Rejected(worker[w].employee)

C6_Witness ==
    \E r \in Creates :
        /\ r.status = 422
        /\ r.employee = [BaseBody EXCEPT !.age = AgeMax + 1]
        /\ employees # {}

\* C7: a listAll answer holds every stored record exactly once, by
\* ascending id; over an empty store it is the empty sequence.
C7_ListAllOrdered ==
    \A r \in Lists :
        /\ r.status # 200 =>
              /\ r.status = 500
              /\ r.body \in StoreFailure("Error retrieving employees: ")
        /\ r.status = 200 =>
            /\ DOMAIN r.body = 1..Cardinality(employees)
            /\ \A e \in employees :
                  Cardinality({k \in DOMAIN r.body : r.body[k] = EmployeeData(e)}) = 1
            /\ \A k \in DOMAIN r.body : \A l \in DOMAIN r.body :
                  k < l => r.body[k].id < r.body[l].id

C7_Witness ==
    \E r \in Lists :
        /\ r.status = 200
        /\ Len(r.body) = 2
        /\ r.body[1].id = 1
        /\ r.body[2].id = 3
        /\ r.body[1].name = "Bob"

\* C8: deleting an id that no stored record has is answered 404 "not
\* found" (500 only when the store itself failed) and leaves the committed
\* rows as they were.
C8_DeleteMissing ==
    \A r \in Deletes :
        r.employee_id \notin Ids(r.before) =>
            /\ employees = r.before
            /\ \/ /\ r.status = 404
                  /\ r.body = [detail |-> "Employee with ID {employee_id} not found"]
               \/ /\ r.status = 500
                  /\ r.body \in StoreFailure("Error deleting employee: ")

C8_Witness ==
    \E r \in Deletes :
        /\ r.status = 404
        /\ r.employee_id = MaxId + 1
        /\ Cardinality(employees) = 2

\* The sequence s without its elements of id i.
RECURSIVE WithoutId(_, _)
WithoutId(s, i) ==
    IF s = <<>> THEN <<>>
    ELSE IF Head(s).id = i THEN WithoutId(Tail(s), i)
    ELSE <<Head(s)>> \o WithoutId(Tail(s), i)

\* C9: a delete whose statement found the stored record of its id is
\* answered 200 with deleted = true (500 when the commit failed); a 200
\* removes that one record and leaves the others as they were, in the
\* order listAll gave them.
C9_DeleteRemovesOne ==
    \A r \in Deletes :
        /\ (r.locals.pc = "delete_commit" /\ r.locals.deleting # {}) =>
              \/ r.status = 200
              \/ /\ r.status = 500
                 /\ r.body \in StoreFailure("Error deleting employee: ")
                 /\ employees = r.before
        /\ r.status = 200 =>
              /\ r.body.deleted = TRUE
              /\ Cardinality(r.before \ employees) = 1
              /\ Ids(r.before \ employees) = {r.employee_id}
              /\ employees \subseteq r.before
              /\ SelectAll(employees) = WithoutId(SelectAll(r.before), r.employee_id)

C9_Witness ==
    \E r \in Deletes :
        /\ r.status = 200
        /\ r.employee_id = 2
        /\ Ids(employees) = {1, 3}

\* C10: a create that ends in failure leaves the committed rows as they
\* were, and no row of a failed or unfinished create is among the rows
\* the queries read: every stored id was returned by a successful create.
C10_CreateAtomic ==
    /\ \A r \in Creates :
          r.status # 201 =>
              /\ employees = r.before
              /\ r.locals.result \cap employees = {}
    /\ Ids(employees) \subseteq Range(returned_ids)
    /\ \A w \in Procs : worker[w].result \cap employees = {}

C10_Witness ==
    \E r \in Creates :
        /\ r.status = 500
        /\ r.locals.pc = "add_commit"
        /\ r.locals.result # {}
        /\ employees # {}

\* The psycopg2 errors the store functions raise.
StoreErrors == {ConnectFailed, ConnectionLost, UndefinedTable, NumericFieldOverflow}

\* The text each handler puts before str(e) in the detail of its 500.
ErrorPrefix(op) ==
    "Error " \o CASE op = "POST /employee" -> "adding employee: "
                  [] op = "GET /employees" -> "retrieving employees: "
                  [] op = "DELETE /employee/{employee_id}" -> "deleting employee: "
                  [] op = "GET /stats/median-age" -> "calculating median age: "
                  [] op = "GET /stats/median-salary" -> "calculating median salary: "

\* C11: a request whose store function raised is answered 500 with a
\* detail that begins with "Error " and the handler's description, and its
\* handler called the store function once; no other request is answered 500.
C11_StoreErrorIs500 ==
    \A r \in responses :
        /\ r.raised # {} =>
              /\ r.status = 500
              /\ \E e \in r.raised : r.body = [detail |-> ErrorPrefix(r.op) \o e]
              /\ r.db_calls = 1
        /\ r.status = 500 => r.raised # {}

C11_Witness ==
    \E r \in responses :
        /\ r.raised = {ConnectionLost}
        /\ r.op = "DELETE /employee/{employee_id}"
        /\ r.locals.pc = "delete_commit"
        /\ r.locals.deleting # {}
        /\ r.status = 500

\* C12: the body of a 500 is the same whatever error the store function
\* raised: it is the body the endpoint sends for every other error too.
C12_FailureBodyGeneric ==
    \A r \in responses :
        r.status = 500 =>
            \A e \in StoreErrors : r.body = Http500(ErrorPrefix(r.op), e)

\* C13 as stated: every GET /employees is answered 200.
C13_ListAlways200 ==
    \A r \in Lists : r.status = 200

\* C13 amended: GET /employees takes no input; it is answered 200 with a
\* sequence of as many records as are stored whenever its store function
\* did not raise, and 500 when it raised.
C13_ListSucceeds ==
    \A r \in Lists :
        /\ r.employee = NoBody /\ r.employee_id = 0
        /\ r.raised = {} =>
              /\ r.status = 200
              /\ DOMAIN r.body = 1..Cardinality(employees)
        /\ r.raised # {} => r.status = 500

C13_Witness ==
    \E r \in Lists :
        /\ r.status = 200
        /\ r.body = <<>>
        /\ r.raised = {}
        /\ returned_ids # <<>>

\* C14: a store function has at most the one connection it opened, and
\* that only while it runs: a worker between requests and init_database
\* when it has ended hold no connection, a handler that has answered has
\* left none open, and a request that called no store function had none.
C14_ConnectionsClosed ==
    /\ \A w \in Procs :
          /\ worker[w].pc = "idle" => ~worker[w].conn
          /\ worker[w].conn => worker[w].db_calls = 1
    /\ startup.pc # "create_table" => ~startup.conn
    /\ \A r \in responses :
          /\ ~worker[r.worker].conn
          /\ r.db_calls = 0 => ~r.locals.conn

C14_Witness ==
    \E r \in responses :
        /\ r.raised = {ConnectionLost}
        /\ r.op = "POST /employee"
        /\ r.locals.pc = "add_commit"
        /\ r.locals.conn
        /\ ~worker[r.worker].conn
        /\ \E w \in Procs : worker[w].conn

\* C15: every stored record has an age > 0, a salary > 0 as stored (in
\* cents), a non-empty name and a non-empty department.
C15_StoredRecordsValid ==
    \A e \in employees :
        /\ e.age > 0
        /\ e.salary > 0
        /\ e.name # ""
        /\ e.department # ""

\* C16 as stated: stored ids are unique, the ids creates return grow in
\* the order in which the creates answer, and a deleted id is returned
\* by one create only.
C16_IdsIncreaseByReturn ==
    /\ \A a \in employees : \A b \in employees : a.id = b.id => a = b
    /\ \A k \in DOMAIN returned_ids : \A l \in DOMAIN returned_ids :
          k < l => returned_ids[k] < returned_ids[l]
    /\ \A i \in BagToSet(deleted_ids) :
          Cardinality({k \in DOMAIN returned_ids : returned_ids[k] = i}) = 1

\* Stored ids are unique and no id is returned by two creates.
IdsUnique ==
    /\ \A a \in employees : \A b \in employees : a.id = b.id => a = b
    /\ \A k \in DOMAIN returned_ids : \A l \in DOMAIN returned_ids :
          returned_ids[k] = returned_ids[l] => k = l
    /\ \A i \in BagToSet(deleted_ids) :
          Cardinality({k \in DOMAIN returned_ids : returned_ids[k] = i}) = 1

\* The id an INSERT writes is greater than every id a create has returned
\* so far, every stored or deleted id and every id another create holds.
IdsAssignedInOrder ==
    \A w \in Procs :
        (worker[w].pc = "add_execute" /\ worker'[w].pc = "add_commit") =>
            \A r \in worker'[w].result :
                /\ \A k \in DOMAIN returned_ids : r.id > returned_ids[k]
                /\ \A i \in Ids(employees) \cup BagToSet(deleted_ids) : r.id > i
                /\ \A v \in Procs \ {w} : \A q \in worker[v].result : r.id > q.id

\* C16 amended: stored ids are unique, the id of a deleted record is never
\* assigned again, and each create is assigned an id greater than every
\* id assigned before, hence than the id of every create that had answered
\* before it ran; creates that overlap may answer in either order.
C16_IdsUniqueAssignedInOrder ==
    []IdsUnique /\ [][IdsAssignedInOrder]_vars

C16_Witness ==
    /\ returned_ids = <<2, 1, 3>>
    /\ CopiesIn(1, deleted_ids) = 1
    /\ Ids(employees) = {2, 3}

\* C17: a stored record stays as it is, created_at included, through
\* every step of every operation; it leaves the table only whole, in the
\* step in which a delete of its id answers 200.
C17_NeverUpdated ==
    [][\A e \in employees :
          \/ e \in employees'
          \/ /\ e.id \notin Ids(employees')
             /\ \E r \in responses' :
                   /\ r.op = "DELETE /employee/{employee_id}"
                   /\ r.status = 200
                   /\ r.employee_id = e.id]_vars

C17_Witness ==
    /\ \E e \in employees : e.id = 1 /\ e.created_at = 1 /\ e.name = "Ann"
    /\ \E e \in employees : e.id = 3 /\ e.name = "Ann"
    /\ BagToSet(deleted_ids) = {2}

\* C18: init_database on a table that exists raises nothing but a lost or
\* refused connection, and whether it raises or not it leaves the table,
\* its rows and the sequence as they were; on a missing table it ends with
\* the table in place.  So a second run changes nothing the first left.
C18_InitializeIdempotent ==
    /\ [](startup.raised \subseteq {ConnectFailed, ConnectionLost})
    /\ [][(startup.pc = "create_table" /\ startup'.pc # "create_table") =>
             /\ startup'.pc = "initialized" => table_exists'
             /\ table_exists =>
                   UNCHANGED <<table_exists, employees, employees_id_seq,
                               returned_ids, deleted_ids>>]_vars

C18_Witness ==
    /\ startup.pc = "initialized"
    /\ Cardinality(employees) = 2
    /\ deleted_ids # EmptyBag

\* The workers other than w that are inside db_utils.add_employee.
CreatingBeside(w) ==
    {v \in Procs \ {w} : worker[v].pc \in {"add_execute", "add_commit"}}

\* C19: creates that overlap do not conflict.  Two INSERTs that have both
\* run hold different ids; a create that answers 201 beside another has
\* its record stored under an id the other does not hold; a create that
\* fails does so for the connection, the missing table or the salary
\* column, as it would alone; and every id returned is stored until it is
\* deleted.
C19_ConcurrentCreates ==
    /\ \A w \in Procs : \A v \in CreatingBeside(w) :
          \A a \in worker[w].result : \A b \in worker[v].result : a.id # b.id
    /\ \A r \in Creates :
          /\ r.status = 201 =>
                /\ \E e \in employees : EmployeeData(e) = r.body
                /\ \A v \in CreatingBeside(r.worker) :
                      \A b \in worker[v].result : b.id # r.body.id
          /\ r.status \notin {201, 422} =>
                \/ r.raised \in {{ConnectFailed}, {ConnectionLost}}
                \/ r.raised = {UndefinedTable} /\ ~table_exists
                \/ r.raised = {NumericFieldOverflow} /\ NumericOverflow(r.employee.salary)
    /\ \A k \in DOMAIN returned_ids :
          \/ returned_ids[k] \in Ids(employees)
          \/ BagIn(returned_ids[k], deleted_ids)

C19_Witness ==
    \E r \in Creates :
        /\ r.status = 201
        /\ r.body.id = 1
        /\ returned_ids = <<2, 1>>
        /\ Ids(employees) = {1, 2}

\* C20: call_api returns (data, error, status) with exactly one of data
\* and error present; data is the body, with no error and the status of
\* the response, exactly when that status is 200 or 201; another status
\* gives no data, an error text with the status code, and that status; a
\* connection error or a timeout gives no data, an error text and status
\* 0; an unsupported method gives no data, "Unsupported method" and 400
\* with no request sent.
C20_CallApiTriple ==
    ui.method # "" =>
        LET t == ui.result
            h == ui.http
            supported == ui.method \in {"GET", "POST", "DELETE"}
            answered == supported /\ h.raised = ""
        IN /\ (t.data = {}) # (t.error = {})
           /\ ~supported =>
                 /\ t = Triple({}, {"Unsupported method: " \o ui.method}, 400)
                 /\ h = NoHttp
           /\ answered =>
                 (h.status_code \in {200, 201}) <=> (t.data # {} /\ t.error = {})
           /\ (answered /\ h.status_code \in {200, 201}) =>
                 t = Triple({h.text}, {}, h.status_code)
           /\ (answered /\ h.status_code \notin {200, 201}) =>
                 t = Triple({}, {"Error: " \o ToString(h.status_code) \o " - " \o h.text},
                            h.status_code)
           /\ (supported /\ h.raised \in {"ConnectionError", "Timeout"}) =>
                 /\ t.data = {}
                 /\ t.error # {}
                 /\ t.status_code = 0

\* The workers other than w that are inside db_utils.delete_employee_by_id
\* for the id i, which was stored when their request came in.
DeletingBeside(w, i) ==
    {v \in Procs \ {w} : /\ worker[v].pc \in {"delete_execute", "delete_commit"}
                         /\ worker[v].employee_id = i
                         /\ worker[v].existed}

\* C21: of the deletes of one stored id that overlap, one answers 200 with
\* deleted = true and removes the record, the others answer 404 and remove
\* nothing: the first to answer, with another still running, is the 200,
\* and when any of them has answered the id has been deleted exactly once
\* and is not stored.  None is answered 500 because of the other: a 500
\* is a refused or lost connection or the missing table, as for a delete
\* that runs alone.
C21_ConcurrentDeletes ==
    \A r \in Deletes :
        LET i == r.employee_id
        IN r.locals.existed =>
              /\ r.status # 500 <=> r.raised = {}
              /\ r.raised # {} =>
                    \/ r.raised \in {{ConnectFailed}, {ConnectionLost}}
                    \/ r.raised = {UndefinedTable} /\ ~table_exists
              /\ r.raised = {} =>
                    /\ r.status \in {200, 404}
                    /\ DeletingBeside(r.worker, i) # {} => r.status = 200
                    /\ CopiesIn(i, deleted_ids) = 1
                    /\ i \notin Ids(employees)
                    /\ r.status = 200 =>
                          /\ r.body.deleted = TRUE
                          /\ Ids(r.before \ employees) = {i}
                    /\ r.status = 404 =>
                          /\ employees = r.before
                          /\ r.locals.deleting = {}

C21_Witness ==
    \E r \in Deletes :
        /\ r.status = 404
        /\ r.raised = {}
        /\ r.locals.existed
        /\ r.locals.pc = "delete_commit"
        /\ r.locals.deleting = {}
        /\ r.employee_id = 2
        /\ Ids(employees) = {1, 3}

\* The statements of the store functions that only read.
ReadPcs == {"select_all", "median_age", "median_salary"}

\* C22: no step of GET /employees, of the two statistics endpoints or of
\* GET /, and no create answered 422, changes the stored rows or the
\* sequence the next id comes from, whether it answers 200 or fails; the
\* handler that took the step has written no row and removed none.
C22_ReadsLeaveStore ==
    [][\A w \in Procs :
          LET reading == /\ worker'[w] # worker[w]
                         /\ worker[w].pc \in ReadPcs \/ worker'[w].pc \in ReadPcs
              answered == /\ responses' # responses
                          /\ \E r \in responses' :
                                /\ r.worker = w
                                /\ \/ r \in Lists' \cup Stats'
                                   \/ r.op = "GET /"
                                   \/ r.op = "POST /employee" /\ r.status = 422
          IN (reading \/ answered) =>
                /\ UNCHANGED <<employees, employees_id_seq>>
                /\ worker'[w].result = {}
                /\ worker'[w].deleting = {}]_vars

C22_Witness ==
    \E r \in Stats :
        /\ r.status = 500
        /\ r.raised = {ConnectionLost}
        /\ r.locals.pc = "median_salary"
        /\ employees = r.before
        /\ Ids(employees) = {1, 3}
        /\ employees_id_seq = 3

\* The column of a stored salary (cents) the Employee objects came from.
SalaryCents(s) == s.units * Pow10(NumericScale) + s.mills \div Pow10(3 - NumericScale)

\* C4: the in-memory medians of HRManager and the medians the store
\* computes over the same records are the same values, for every list of
\* employees, the empty one included.
C4_MediansAgree ==
    /\ calculate_median_age(hr_employees)
           = get_median_age64([k \in DOMAIN hr_employees |-> hr_employees[k].age])
    /\ calculate_median_salary(hr_employees)
           = get_median_salary64([k \in DOMAIN hr_employees |->
                                     SalaryCents(hr_employees[k].salary)])

====
